---- MODULE Spec2Model ----
(***************************************************************************)
(* Personal finance tracker (src/python_1/project.py): the summary store   *)
(* (load_summary_data / save_summary_data), the input validator            *)
(* (validate_number), the summary calculator (calculate_summary) and the   *)
(* button handlers of PFTrackerApp that call them.                         *)
(*                                                                         *)
(* Numbers.  A Python float is a record [t, v]: a finite number            *)
(* [t |-> "num"] whose v counts units of 10^-MaxLen (fixed point, exact),  *)
(* or nan, or +/-inf.  Binary rounding of floats is not modelled.          *)
(* A JSON value stored under a category key is a float, a string holding a *)
(* numeral, a string holding other text, null, or the key is absent.       *)
(***************************************************************************)
EXTENDS Integers, Sequences, FiniteSets, TLC

VARIABLES primary, backup, last, saveLog, nsub, nfail, entry, vres

vars == <<primary, backup, last, saveLog, nsub, nfail, entry, vres>>

-----------------------------------------------------------------------------
(* Bounds *)

\* longest amount text the validator is run on
MaxLen == 3
\* submits that pass validation in one run of the application
MaxSubmits == 2
\* category keys of a persisted document that deviate from the default
MaxDirty == 2
\* handlers that meet a failing file access in one run
MaxFails == 1

RECURSIVE Pow10(_)
Pow10(n) == IF n = 0 THEN 1 ELSE 10 * Pow10(n - 1)

\* fixed-point units per 1.0
Scale == Pow10(MaxLen)

-----------------------------------------------------------------------------
(* Values *)

Num(n) == [t |-> "num", v |-> n]
NaN == [t |-> "nan", v |-> 0]
PInf == [t |-> "inf", v |-> 1]
NInf == [t |-> "inf", v |-> -1]
\* JSON string whose text is the numeral of n units, e.g. "1.0"
NumStr(n) == [t |-> "numstr", v |-> n]
\* JSON string that is no numeral, e.g. "abc"
TextVal == [t |-> "text", v |-> 0]
NullVal == [t |-> "null", v |-> 0]
\* the key is not in the mapping
Absent == [t |-> "absent", v |-> 0]

IsFloat(x) == x.t \in {"num", "nan", "inf"}
IsFinite(x) == x.t = "num"

Neg(x) == IF x.t = "nan" THEN x ELSE [t |-> x.t, v |-> 0 - x.v]

\* float + float
Add(a, b) ==
  IF a.t = "nan" \/ b.t = "nan" THEN NaN
  ELSE IF a.t = "inf" /\ b.t = "inf" THEN (IF a.v = b.v THEN a ELSE NaN)
  ELSE IF a.t = "inf" THEN a
  ELSE IF b.t = "inf" THEN b
  ELSE Num(a.v + b.v)

Sub(a, b) == Add(a, Neg(b))

\* float == 0
IsZero(x) == x.t = "num" /\ x.v = 0

\* float <= 0 (every comparison with nan is false)
LeqZero(x) == (x.t = "num" /\ x.v <= 0) \/ (x.t = "inf" /\ x.v < 0)

\* float > 0
GtZero(x) == (x.t = "num" /\ x.v > 0) \/ (x.t = "inf" /\ x.v > 0)

\* float(x) of a JSON value: [ok, val]; ok = FALSE is ValueError/TypeError
PyFloat(x) ==
  IF IsFloat(x) THEN [ok |-> TRUE, val |-> x]
  ELSE IF x.t = "numstr" THEN [ok |-> TRUE, val |-> Num(x.v)]
  ELSE [ok |-> FALSE, val |-> Num(0)]

-----------------------------------------------------------------------------
(* Category registry *)

INCOME_CATEGORIES == <<"Salary", "Gift", "Investment", "Other">>
EXPENSE_CATEGORIES ==
  <<"Food", "Housing", "Transportation", "Entertainment", "Health", "Education", "Other">>

Range(s) == {s[i] : i \in 1..Len(s)}

Sections == {"income", "expenses"}
Expected(section) == IF section = "income" THEN INCOME_CATEGORIES ELSE EXPENSE_CATEGORIES
Cats(section) == Range(Expected(section))

\* a key outside the registry that a hand-edited file may hold
ExtraKey == "Bonus"
Keys(section) == Cats(section) \cup {ExtraKey}

-----------------------------------------------------------------------------
(* Amount texts and float(str) *)

Alphabet == {" ", "-", ".", "0", "1", "n", "a"}
Digits == {"0", "1"}

RECURSIVE TextsOfLen(_)
TextsOfLen(n) ==
  IF n = 0 THEN {<<>>}
  ELSE {Append(s, c) : s \in TextsOfLen(n - 1), c \in Alphabet}

\* the texts of at most n characters
Texts(n) == UNION {TextsOfLen(k) : k \in 0..n}

RECURSIVE LStrip(_)
LStrip(s) == IF s # <<>> /\ Head(s) = " " THEN LStrip(Tail(s)) ELSE s

RECURSIVE RStrip(_)
RStrip(s) ==
  IF s # <<>> /\ s[Len(s)] = " " THEN RStrip(SubSeq(s, 1, Len(s) - 1)) ELSE s

\* str.strip()
Strip(s) == RStrip(LStrip(s))

IsDigits(s) == \A i \in 1..Len(s) : s[i] \in Digits

DigitVal(c) == IF c = "1" THEN 1 ELSE 0

RECURSIVE IntVal(_)
IntVal(s) ==
  IF s = <<>> THEN 0
  ELSE 10 * IntVal(SubSeq(s, 1, Len(s) - 1)) + DigitVal(s[Len(s)])

ParseFail == [ok |-> FALSE, val |-> Num(0)]

\* an unsigned float literal: nan, digits, digits.digits, digits., .digits
ParseUnsigned(s) ==
  LET dots == {i \in 1..Len(s) : s[i] = "."} IN
  IF s = <<"n", "a", "n">> THEN [ok |-> TRUE, val |-> NaN]
  ELSE IF dots = {} THEN
    IF s # <<>> /\ IsDigits(s) THEN [ok |-> TRUE, val |-> Num(IntVal(s) * Scale)]
    ELSE ParseFail
  ELSE IF Cardinality(dots) = 1 THEN
    LET p == CHOOSE i \in dots : TRUE
        ip == SubSeq(s, 1, p - 1)
        fp == SubSeq(s, p + 1, Len(s))
    IN IF IsDigits(ip) /\ IsDigits(fp) /\ Len(ip) + Len(fp) > 0 /\ Len(fp) <= MaxLen
       THEN [ok |-> TRUE,
             val |-> Num(IntVal(ip) * Scale + IntVal(fp) * Pow10(MaxLen - Len(fp)))]
       ELSE ParseFail
  ELSE ParseFail

\* float(s) of a text: [ok, val]; ok = FALSE is ValueError
ParseFloat(s) ==
  LET t == Strip(s) IN
  IF t # <<>> /\ Head(t) = "-"
  THEN LET u == ParseUnsigned(Tail(t)) IN [ok |-> u.ok, val |-> Neg(u.val)]
  ELSE ParseUnsigned(t)

-----------------------------------------------------------------------------
(* Input validator *)

MsgNoInput == "No input provided."
MsgNotNumber ==
  "Number is invalid or input was not a number.\nExample: 500; 503.81\nNo Symbols."
MsgNotPositive == "Value must be greater than 0."

validate_number(txt) ==
  LET s == Strip(txt)
      f == ParseFloat(s)
  IN IF s = <<>> THEN [ok |-> FALSE, val |-> Num(0), msg |-> MsgNoInput]
     ELSE IF ~f.ok THEN [ok |-> FALSE, val |-> Num(0), msg |-> MsgNotNumber]
     ELSE IF LeqZero(f.val) THEN [ok |-> FALSE, val |-> Num(0), msg |-> MsgNotPositive]
     ELSE [ok |-> TRUE, val |-> f.val, msg |-> ""]

NoResult == [ok |-> FALSE, val |-> Num(0), msg |-> "not run"]

-----------------------------------------------------------------------------
(* Files.  A file is [exists, content]; a content is                       *)
(*   kind "corrupt":  text json.load rejects (also a truncated write),     *)
(*   kind "nondict":  valid JSON whose top level is no object,             *)
(*   kind "dict":     an object; each section is "missing", "notdict" (the *)
(*                    key holds no object) or "dict" with a value per key. *)

ZeroMap(section) == [k \in Keys(section) |-> IF k \in Cats(section) THEN Num(0) ELSE Absent]
NoMap(section) == [k \in Keys(section) |-> Absent]

ZeroSection(section) == [kind |-> "dict", m |-> ZeroMap(section)]
NoSection(section, kind) == [kind |-> kind, m |-> NoMap(section)]

\* DEFAULT_SUMMARY
DEFAULT_SUMMARY ==
  [kind |-> "dict", income |-> ZeroSection("income"), expenses |-> ZeroSection("expenses")]

Shapeless(kind) ==
  [kind |-> kind, income |-> NoSection("income", "missing"),
   expenses |-> NoSection("expenses", "missing")]

Corrupt == Shapeless("corrupt")
NonDict == Shapeless("nondict")

NoFile == [exists |-> FALSE, content |-> Corrupt]
File(c) == [exists |-> TRUE, content |-> c]

\* what load_summary_data returns when it returns: every registry category of
\* both sections is there and holds a float
WellFormed(c) ==
  /\ c.kind = "dict"
  /\ \A section \in Sections :
       /\ c[section].kind = "dict"
       /\ \A cat \in Cats(section) : IsFloat(c[section].m[cat])

\* outcomes of one access to a file
Writes == {"ok", "fail_open", "fail_partial"}
Reads == {"ok", "error"}
Unlinks == {"ok", "error"}

\* open(path, "w") and json.dump: "fail_open" leaves the file as it was,
\* "fail_partial" leaves it truncated
Written(old, c, w) ==
  IF w = "ok" THEN File(c)
  ELSE IF w = "fail_open" THEN old
  ELSE File(Corrupt)

-----------------------------------------------------------------------------
(* load_summary_data *)

\* the mutant resets every value it finds instead of converting it
RepairValue_reset(x) == [val |-> Num(0), repaired |-> x.t = "absent" \/ ~PyFloat(x).ok]

\* lines 92-101 for one category: [val, repaired]
RepairValue(x) ==
  IF x.t = "absent" THEN [val |-> Num(0), repaired |-> TRUE]
  ELSE IF PyFloat(x).ok THEN [val |-> PyFloat(x).val, repaired |-> FALSE]
  ELSE [val |-> Num(0), repaired |-> TRUE]

\* lines 85-101 for one section: [sec, repaired]
RepairSection(c, section) ==
  LET sec == c[section] IN
  IF sec.kind # "dict"
  THEN [sec |-> ZeroSection(section), repaired |-> TRUE]
  ELSE [sec |-> [kind |-> "dict",
                 m |-> [k \in Keys(section) |->
                          IF k \in Cats(section) THEN RepairValue(sec.m[k]).val
                          ELSE sec.m[k]]],
        repaired |-> \E k \in Cats(section) : RepairValue(sec.m[k]).repaired]

\* lines 81-101: [doc, repaired]
Repair(c) ==
  LET i == RepairSection(c, "income")
      e == RepairSection(c, "expenses")
  IN [doc |-> [kind |-> "dict", income |-> i.sec, expenses |-> e.sec],
      repaired |-> i.repaired \/ e.repaired]

\* result of one call: the file afterwards, whether the call returned (ret)
\* or raised, the document returned, the dialog shown, how many file
\* accesses failed
LoadResult(f, ret, doc, signal, iofail) ==
  [file |-> f, ret |-> ret, doc |-> doc, signal |-> signal,
   fails |-> IF iofail THEN 1 ELSE 0]

\* load_summary_data() on primary file p; rd, ul, wr are the outcomes of the
\* read (line 69), the unlink (line 72) and the write (lines 63, 73, 104)
load_summary_data(p, rd, ul, wr) ==
  IF ~p.exists THEN
    LoadResult(Written(p, DEFAULT_SUMMARY, wr), wr = "ok", DEFAULT_SUMMARY,
               IF wr = "ok" THEN "Summary File Created" ELSE "", wr # "ok")
  ELSE IF rd = "error" THEN
    LoadResult(p, TRUE, DEFAULT_SUMMARY, "File Error", TRUE)
  ELSE IF p.content.kind = "corrupt" THEN
    IF ul = "error" THEN LoadResult(p, FALSE, DEFAULT_SUMMARY, "", TRUE)
    ELSE LoadResult(Written(NoFile, DEFAULT_SUMMARY, wr), wr = "ok", DEFAULT_SUMMARY,
                    IF wr = "ok" THEN "Corrupted File Replaced" ELSE "", wr # "ok")
  ELSE IF p.content.kind = "nondict" THEN
    LoadResult(p, FALSE, DEFAULT_SUMMARY, "", FALSE)
  ELSE
    LET r == Repair(p.content) IN
    IF r.repaired
    THEN LoadResult(Written(p, r.doc, wr), wr = "ok", r.doc,
                    IF wr = "ok" THEN "Repairs Made" ELSE "", wr # "ok")
    ELSE LoadResult(p, TRUE, r.doc, "", FALSE)

\* every way one call can end
LoadOutcomes(p) ==
  {load_summary_data(p, rd, ul, wr) : rd \in Reads, ul \in Unlinks, wr \in Writes}

\* the call when no file access fails
LoadQuiet(p) == load_summary_data(p, "ok", "ok", "ok")

-----------------------------------------------------------------------------
(* save_summary_data *)

CopyFailed(p, cp) == p.exists /\ cp # "ok"

SaveResult(p, b, ok, unlinkFailed, copyFailed) ==
  [primary |-> p, backup |-> b, ok |-> ok, unlinkFailed |-> unlinkFailed,
   fails |-> (IF copyFailed THEN 1 ELSE 0) + (IF ~ok \/ unlinkFailed THEN 1 ELSE 0)]

\* lines 114-118: shutil.copyfile(path, backup), failures swallowed
Copied(p, b, cp) ==
  IF ~p.exists THEN b
  ELSE IF cp = "ok" THEN File(p.content)
  ELSE IF cp = "fail_open" THEN b
  ELSE File(Corrupt)

\* the mutant leaves the backup behind after a successful write
save_summary_data_keep(p, b, data, cp, wr, ul) ==
  LET b1 == Copied(p, b, cp) IN
  IF wr # "ok" THEN SaveResult(Written(p, data, wr), b1, FALSE, FALSE, CopyFailed(p, cp))
  ELSE SaveResult(File(data), b1, TRUE, FALSE, CopyFailed(p, cp))

\* save_summary_data(data) with primary p and backup b; cp, wr, ul are the
\* outcomes of the copy (line 116), the write (line 120) and the unlink
\* (line 127)
save_summary_data(p, b, data, cp, wr, ul) ==
  LET b1 == Copied(p, b, cp) IN
  IF wr # "ok" THEN SaveResult(Written(p, data, wr), b1, FALSE, FALSE, CopyFailed(p, cp))
  ELSE IF b1.exists /\ ul = "error"
    THEN SaveResult(File(data), b1, TRUE, TRUE, CopyFailed(p, cp))
  ELSE SaveResult(File(data), NoFile, TRUE, FALSE, CopyFailed(p, cp))

SaveOutcomes(p, b, data) ==
  {save_summary_data(p, b, data, cp, wr, ul) : cp \in Writes, wr \in Writes, ul \in Unlinks}

SaveQuiet(p, b, data) == save_summary_data(p, b, data, "ok", "ok", "ok")

-----------------------------------------------------------------------------
(* calculate_summary *)

KeyOrder(section) == Append(Expected(section), ExtraKey)

\* sum(float(v) for v in mapping.values()): [ok, val]; ok = FALSE when a
\* float(v) raises
RECURSIVE SumValues(_, _)
SumValues(m, ks) ==
  IF ks = <<>> THEN [ok |-> TRUE, val |-> Num(0)]
  ELSE LET x == m[Head(ks)]
           rest == SumValues(m, Tail(ks))
       IN IF x.t = "absent" THEN rest
          ELSE IF ~PyFloat(x).ok \/ ~rest.ok THEN [ok |-> FALSE, val |-> Num(0)]
          ELSE [ok |-> TRUE, val |-> Add(PyFloat(x).val, rest.val)]

Report(kind, ti, te, nb) ==
  [kind |-> kind, total_income |-> ti, total_expenses |-> te, net_balance |-> nb]

NoReport == Report("not run", Num(0), Num(0), Num(0))

\* lines 445-455 on the loaded document: kind "none" is the None returned,
\* "report" the dict, "raised" an exception out of float(v)
calculate_summary(data) ==
  LET ti == SumValues(data.income.m, KeyOrder("income"))
      te == SumValues(data.expenses.m, KeyOrder("expenses"))
  IN IF ~ti.ok \/ ~te.ok THEN Report("raised", Num(0), Num(0), Num(0))
     ELSE IF IsZero(ti.val) /\ IsZero(te.val) THEN Report("none", Num(0), Num(0), Num(0))
     ELSE Report("report", ti.val, te.val, Sub(ti.val, te.val))

-----------------------------------------------------------------------------
(* The handlers.  One handler runs to completion per step.  `last` records  *)
(* the step just taken: the handler, what the validator said, what load    *)
(* returned, the category selected and the amount added once load has      *)
(* returned (lines 393-394, 406-407), how save ended, the primary file at the *)
(* moment save was called, whether a file access failed, whether an        *)
(* exception left the handler (raised), and the report computed.           *)

NoOp ==
  [op |-> "none", valid |-> FALSE, section |-> "", cat |-> "", amt |-> Num(0),
   load |-> "none", signal |-> "", doc |-> DEFAULT_SUMMARY,
   save |-> "none", preSave |-> NoFile, iofail |-> FALSE, raised |-> FALSE,
   rep |-> NoReport]

NoSave == [result |-> "none", unlinkFailed |-> FALSE]

\* amounts typed into the entry in the application runs explored
AmountTexts ==
  {<<>>, <<"a">>, <<"0">>, <<"-", "1">>, <<" ", "1">>}

\* data[section][cat] += val
Bump(data, section, cat, val) ==
  [data EXCEPT ![section].m[cat] = Add(@, val)]

Loaded(op, L) ==
  [op EXCEPT !.load = IF L.ret THEN "returned" ELSE "raised",
             !.signal = L.signal, !.doc = L.doc, !.iofail = (L.fails > 0),
             !.raised = ~L.ret]

Saved(op, pre, S) ==
  [op EXCEPT !.save = IF S.ok THEN "ok" ELSE "failed",
             !.preSave = pre, !.iofail = @ \/ (S.fails > 0)]

\* the run's budget of handlers that meet a failing file access covers this
\* one, in which n accesses fail
Within(n) ==
  LET k == IF n > 0 THEN 1 ELSE 0 IN nfail + k <= MaxFails /\ nfail' = nfail + k

\* the mutant reads the store before it looks at the validator's verdict
SubmitRejected_loadfirst(op) ==
  \E L \in LoadOutcomes(primary) :
    /\ Within(L.fails)
    /\ primary' = L.file
    /\ last' = op
    /\ UNCHANGED <<backup, saveLog, nsub, entry, vres>>

\* lines 389-391 and 402-404: the dialog, then return
SubmitRejected(op) ==
  /\ last' = op
  /\ UNCHANGED <<primary, backup, saveLog, nsub, nfail, entry, vres>>

\* _submit_income / _submit_expense
Submit(section) ==
  \E text \in AmountTexts :
    LET v == validate_number(text)
        op == [NoOp EXCEPT !.op = "submit", !.valid = v.ok]
    IN IF ~v.ok
       THEN SubmitRejected(op)
       ELSE /\ nsub < MaxSubmits
            /\ nsub' = nsub + 1
            /\ UNCHANGED <<entry, vres>>
            /\ \E cat \in Cats(section), L \in LoadOutcomes(primary) :
                 LET op1 == Loaded(op, L)
                     op2 == [op1 EXCEPT !.section = section, !.cat = cat, !.amt = v.val]
                 IN
                 IF ~L.ret
                 THEN /\ Within(L.fails)
                      /\ primary' = L.file
                      /\ last' = op1
                      /\ UNCHANGED <<backup, saveLog>>
                 ELSE \E S \in SaveOutcomes(L.file, backup, Bump(L.doc, section, cat, v.val)) :
                        /\ Within(L.fails + S.fails)
                        /\ primary' = S.primary
                        /\ backup' = S.backup
                        /\ saveLog' = [result |-> IF S.ok THEN "ok" ELSE "failed",
                                       unlinkFailed |-> S.unlinkFailed]
                        /\ last' = Saved(op2, L.file, S)

SubmitIncome == Submit("income")

SubmitExpense == Submit("expenses")

\* show_page("summary") -> _populate_summary -> calculate_summary
ViewSummary ==
  \E L \in LoadOutcomes(primary) :
    LET op1 == Loaded([NoOp EXCEPT !.op = "view"], L)
        rep == calculate_summary(L.doc)
    IN /\ Within(L.fails)
       /\ primary' = L.file
       /\ last' = IF ~L.ret THEN op1
                  ELSE [op1 EXCEPT !.rep = rep, !.raised = (rep.kind = "raised")]
       /\ UNCHANGED <<backup, saveLog, nsub, entry, vres>>

\* _on_exit, answered yes; the files outlive the process, which may be
\* started again
Exit ==
  \E L \in LoadOutcomes(primary) :
    LET op1 == Loaded([NoOp EXCEPT !.op = "exit"], L) IN
    /\ UNCHANGED <<nsub, entry, vres>>
    /\ IF ~L.ret
       THEN /\ Within(L.fails)
            /\ primary' = L.file
            /\ last' = op1
            /\ UNCHANGED <<backup, saveLog>>
       ELSE \E S \in SaveOutcomes(L.file, backup, L.doc) :
              /\ Within(L.fails + S.fails)
              /\ primary' = S.primary
              /\ backup' = S.backup
              /\ saveLog' = [result |-> IF S.ok THEN "ok" ELSE "failed",
                             unlinkFailed |-> S.unlinkFailed]
              /\ last' = Saved(op1, L.file, S)

\* the summary file as the application may find it when it starts
MessyDoc ==
  [kind |-> "dict",
   income |-> [kind |-> "dict",
               m |-> [ZeroMap("income") EXCEPT !["Salary"] = NumStr(0),
                                               !["Gift"] = TextVal,
                                               !["Other"] = Absent]],
   expenses |-> NoSection("expenses", "missing")]

StartFiles ==
  {NoFile, File(Corrupt), File(NonDict), File(DEFAULT_SUMMARY), File(MessyDoc)}

Init ==
  /\ primary \in StartFiles
  /\ backup = NoFile
  /\ last = NoOp
  /\ saveLog = NoSave
  /\ nsub = 0
  /\ nfail = 0
  /\ entry = <<>>
  /\ vres = NoResult

Next == SubmitIncome \/ SubmitExpense \/ ViewSummary \/ Exit

Spec == Init /\ [][Next]_vars

-----------------------------------------------------------------------------
(* The store on any summary file: the file is drawn from the documents     *)
(* that deviate from the default in at most MaxDirty keys, with each       *)
(* section present, missing or holding no object; the summary page loads   *)
(* it and computes the report.                                             *)

Positions == UNION {{<<section, k>> : k \in Keys(section)} : section \in Sections}

DirtyVals ==
  {Absent, NaN, PInf, NumStr(Scale), TextVal, NullVal, Num(Scale), Num(0 - Scale)}

DocWith(f) ==
  [kind |-> "dict",
   income |-> [kind |-> "dict",
               m |-> [k \in Keys("income") |->
                        IF <<"income", k>> \in DOMAIN f THEN f[<<"income", k>>]
                        ELSE ZeroMap("income")[k]]],
   expenses |-> [kind |-> "dict",
                 m |-> [k \in Keys("expenses") |->
                          IF <<"expenses", k>> \in DOMAIN f THEN f[<<"expenses", k>>]
                          ELSE ZeroMap("expenses")[k]]]]

\* the documents with at most n keys off the default
DirtyDocs(n) ==
  UNION {{DocWith(f) : f \in [S -> DirtyVals]} :
           S \in {T \in SUBSET Positions : Cardinality(T) <= n}}

SectionKinds == {"dict", "missing", "notdict"}

Reshape(d, ik, ek) ==
  [kind |-> "dict",
   income |-> IF ik = "dict" THEN d.income ELSE NoSection("income", ik),
   expenses |-> IF ek = "dict" THEN d.expenses ELSE NoSection("expenses", ek)]

AnyDocs(n) ==
  {Reshape(d, ik, ek) : d \in DirtyDocs(n), ik \in SectionKinds, ek \in SectionKinds}

AnyFiles(n) == {NoFile, File(Corrupt), File(NonDict)} \cup {File(d) : d \in AnyDocs(n)}

InitStore ==
  /\ primary \in AnyFiles(MaxDirty)
  /\ backup = NoFile
  /\ last = NoOp
  /\ saveLog = NoSave
  /\ nsub = 0
  /\ nfail = 0
  /\ entry = <<>>
  /\ vres = NoResult

SpecStore == InitStore /\ [][ViewSummary]_vars

-----------------------------------------------------------------------------
(* The validator on any amount text of at most MaxLen characters *)

InitValidate ==
  /\ entry \in Texts(MaxLen)
  /\ vres = NoResult
  /\ primary = NoFile
  /\ backup = NoFile
  /\ last = NoOp
  /\ saveLog = NoSave
  /\ nsub = 0
  /\ nfail = 0

Validate ==
  /\ vres = NoResult
  /\ vres' = validate_number(entry)
  /\ UNCHANGED <<primary, backup, last, saveLog, nsub, nfail, entry>>

SpecValidate == InitValidate /\ [][Validate]_vars

-----------------------------------------------------------------------------
(* Properties *)

\* _on_exit when no file access fails: the files it leaves
ExitQuiet(p, b) ==
  LET L == LoadQuiet(p) IN
  IF ~L.ret THEN [primary |-> L.file, backup |-> b]
  ELSE LET S == SaveQuiet(L.file, b, L.doc) IN [primary |-> S.primary, backup |-> S.backup]

\* C1 (Accumulation): every submit whose validation and save both succeed
\* changes the persisted document by adding exactly the validated amount to
\* the selected category of the selected section and nothing else, so that
\* from the all-zero document the totals equal the sums of what was
\* submitted.  Stated for the step from a well-formed persisted document.
C1_Accumulation ==
  [][(/\ last'.op = "submit" /\ last'.valid /\ last'.save = "ok"
      /\ primary.exists /\ WellFormed(primary.content))
     => primary' = File(Bump(primary.content, last'.section, last'.cat, last'.amt))]_vars

\* C2 (Save-failure non-mutation): after a submit whose save returned
\* failure, the next load returns every category value as it was persisted
\* before the submit.
C2_SaveFailureNonMutation ==
  [][(/\ last'.op = "submit" /\ last'.save = "failed"
      /\ primary.exists /\ WellFormed(primary.content))
     => /\ LoadQuiet(primary').ret
        /\ LoadQuiet(primary').doc = primary.content]_vars

\* C3 (Repair completeness): when load returns without a failed file
\* access, every registry category of both sections of the returned
\* document is a finite number, and the persisted file holds exactly the
\* returned document.
C3_RepairCompleteness ==
  (last.op = "view" /\ last.load = "returned" /\ ~last.iofail)
  => /\ \A section \in Sections : \A cat \in Cats(section) :
          IsFinite(last.doc[section].m[cat])
     /\ primary = File(last.doc)

\* every value of the loaded document is 0.0
AllZero(doc) ==
  \A section \in Sections : \A k \in Keys(section) :
    doc[section].m[k] = Absent \/ doc[section].m[k] = Num(0)

\* C4 (Empty-state signal): calculate returns "no data" exactly when every
\* category total of the loaded document is 0.0, and otherwise a report
\* whose net balance is total income minus total expenses.
C4_EmptyStateSignal ==
  (last.op = "view" /\ last.load = "returned")
  => /\ last.rep.kind = "none" <=> AllZero(last.doc)
     /\ ~AllZero(last.doc) =>
          /\ last.rep.kind = "report"
          /\ last.rep.net_balance = Sub(last.rep.total_income, last.rep.total_expenses)

\* C5 (Validator): validate accepts a text exactly when the trimmed text
\* parses as a number strictly greater than 0, returning that number; it
\* rejects empty text, text that does not parse and values not above 0 with
\* their three messages; no accepted value fails to be greater than 0.
C5_Validator ==
  vres # NoResult =>
    LET s == Strip(entry)
        f == ParseFloat(s)
    IN /\ vres.ok <=> (s # <<>> /\ f.ok /\ GtZero(f.val))
       /\ vres.ok => vres.val = f.val /\ GtZero(vres.val)
       /\ s = <<>> => vres.msg = MsgNoInput
       /\ (s # <<>> /\ ~f.ok) => vres.msg = MsgNotNumber
       /\ (s # <<>> /\ f.ok /\ ~GtZero(f.val)) => vres.msg = MsgNotPositive

\* C6 (Round-trip): an exit in which no file access fails leaves a
\* well-formed persisted document exactly as it was, and running the exit
\* once more on what it left changes nothing further.
C6_RoundTrip ==
  [][(last'.op = "exit" /\ last'.save = "ok" /\ ~last'.iofail)
     => /\ (primary.exists /\ WellFormed(primary.content)) => primary' = primary
        /\ ExitQuiet(primary', backup').primary = primary'
        /\ ExitQuiet(primary', backup').backup = backup']_vars

\* a document with a recorded total went through an exit with no failure
C6_Witness ==
  /\ last.op = "exit" /\ last.save = "ok" /\ ~last.iofail
  /\ primary.exists /\ WellFormed(primary.content)
  /\ primary.content.income.m["Salary"] = Num(2 * Scale)
  /\ last.preSave = primary

\* C7 (Backup survives a failed save): when save returned failure and the
\* primary file existed when it was called, the backup exists and holds
\* what the primary file held at that moment.
C7_BackupSurvives ==
  (last.save = "failed" /\ last.preSave.exists)
  => backup.exists /\ backup.content = last.preSave.content

\* C8 (Backup is transient): between operations the backup file exists only
\* if the most recent save returned failure.
C8_BackupTransient ==
  backup.exists => saveLog.result = "failed"

\* C8 as amended: between operations the backup file exists only if the most
\* recent save returned failure, or returned success while the deletion of
\* the backup failed; after a successful save whose deletion did not fail no
\* backup exists.
C8_BackupTransientAmended ==
  /\ backup.exists =>
       saveLog.result = "failed" \/ (saveLog.result = "ok" /\ saveLog.unlinkFailed)
  /\ (saveLog.result = "ok" /\ ~saveLog.unlinkFailed) => ~backup.exists

\* a save copied the existing primary file, wrote, and deleted the copy
C8_Witness ==
  /\ last.save = "ok" /\ last.preSave.exists
  /\ saveLog.result = "ok" /\ ~saveLog.unlinkFailed
  /\ ~backup.exists

\* C9 (No uncaught faults from the store): load always returns a document,
\* whatever the file holds and whichever file access fails; no exception
\* leaves load, save or a submit.
C9_NoUncaughtFault ==
  last.load # "raised"

\* C10 (Invalid input touches nothing): a submit whose amount fails
\* validation calls neither load nor save and leaves the primary and the
\* backup file as they were, in existence and content.
C10_InvalidTouchesNothing ==
  [][(last'.op = "submit" /\ ~last'.valid)
     => /\ primary' = primary
        /\ backup' = backup
        /\ last'.load = "none" /\ last'.save = "none"]_vars

\* an invalid amount was submitted while the primary file is unparseable
C10_Witness ==
  /\ last.op = "submit" /\ ~last.valid
  /\ primary = File(Corrupt)

\* float a < float b, both finite
Lower(a, b) == IsFinite(a) /\ IsFinite(b) /\ a.v < b.v

\* C11 (No recorded total is ever lost): from a well-formed persisted
\* document, no submit, summary view or exit, whichever file access fails in
\* it, leaves in the file a document in which a registry category's total is
\* lower than it was; the all-zero fallback of a failed read is never written
\* over the totals.
C11_NoTotalLost ==
  [][(/\ primary.exists /\ WellFormed(primary.content)
      /\ primary'.exists /\ primary'.content.kind = "dict")
     => \A section \in Sections : \A cat \in Cats(section) :
          ~Lower(primary'.content[section].m[cat],
                 primary.content[section].m[cat])]_vars

====
